---- MODULE Spec2Model ----
(***************************************************************************)
(* A model of _try_to_find_files (src/src/RSMapper/io.py), the data-file   *)
(* relocation resolver of fast_rsm, as a step machine over one call.       *)
(*                                                                         *)
(* A Python str is a sequence of one-character strings, so that split,     *)
(* join, replace and os.path.join are computed character by character.     *)
(* The file system is the set fs of the regular files that exist, each an  *)
(* absolute path given as its sequence of components; os.path.isfile       *)
(* resolves a relative path against cwd (POSIX rules).                     *)
(***************************************************************************)
EXTENDS Integers, Sequences, FiniteSets, TLC

\* Bounds of the model: the longest nominal-path list and the longest list
\* of additional search paths a call is given.
MaxPaths == 2
MaxHints == 2

-----------------------------------------------------------------------------
(* The inputs a call is drawn from.                                        *)

\* Nominal paths: "/d/f", "d\f", "g" and the empty string.
NomPool ==
    { <<"/", "d", "/", "f">>, <<"d", "\\", "f">>, <<"g">>, <<>> }

\* Search-root hints: "/x/y/z" and "h\m".
HintPool ==
    { <<"/", "x", "/", "y", "/", "z">>, <<"h", "\\", "m">> }

\* os.getcwd() is an absolute path: "/w".
CwdPool == { <<"/", "w">> }

\* File systems: the sets of regular files that exist.
FsPool ==
    { {},
      { << <<"d">>, <<"f">> >>, << <<"w">>, <<"N", "o", "n", "e">> >> },
      { << <<"w">>, <<"d">>, <<"f">> >> },
      { << <<"w">>, <<"f">> >>, << <<"x">>, <<"y">>, <<"d">>, <<"f">> >> },
      { << <<"w">>, <<"d", "\\", "f">> >>, << <<"w">>, <<"g">> >> },
      { << <<"w">>, <<"h">>, <<"g">> >>, << <<"x">>, <<"f">> >> } }

SeqsUpTo(S, n) == UNION { [1..m -> S] : m \in 0..n }

\* The values passed as filenames: a list of str, a bare str, or None.
\* val is the list's elements, the str's characters, or str(None).
ArgPool ==
    { [kind |-> "list", val |-> l] : l \in SeqsUpTo(NomPool, MaxPaths) }
    \cup { [kind |-> "str", val |-> s] : s \in { <<"g">>, <<>> } }
    \cup { [kind |-> "NoneType", val |-> <<"N", "o", "n", "e">>] }

-----------------------------------------------------------------------------
(* Pure helpers: the str and os.path operations the code calls.            *)

\* replace changed as by a call that leaves backslashes alone.
replace_nothing(s) == s

\* s.replace('\\', '/')
replace(s) == [k \in 1..Len(s) |-> IF s[k] = "\\" THEN "/" ELSE s[k]]

\* s.split('/')
RECURSIVE split(_)
split(s) ==
    IF \A k \in 1..Len(s) : s[k] # "/"
    THEN <<s>>
    ELSE LET k == CHOOSE k \in 1..Len(s) :
                      s[k] = "/" /\ \A m \in 1..(k - 1) : s[m] # "/"
         IN  <<SubSeq(s, 1, k - 1)>> \o split(SubSeq(s, k + 1, Len(s)))

\* '/'.join(parts)
RECURSIVE join(_)
join(parts) ==
    IF Len(parts) = 0 THEN <<>>
    ELSE IF Len(parts) = 1 THEN parts[1]
    ELSE parts[1] \o <<"/">> \o join(Tail(parts))

\* os.path.join(a, b) (posixpath)
os_path_join(a, b) ==
    IF Len(b) > 0 /\ b[1] = "/" THEN b
    ELSE IF Len(a) = 0 \/ a[Len(a)] = "/" THEN a \o b
    ELSE a \o <<"/">> \o b

\* hasattr_iter changed as by a test every value passes.
hasattr_iter_always(v) == TRUE

\* hasattr(v, "__iter__"): a list and a str have it, None does not.
hasattr_iter(v) == v.kind \in {"list", "str"}

\* Lines 97-101: the paths appended for one search path, one for each j in
\* range(len(split_srch_path)): '/'.join(split_srch_path[:-(j+1)]).
Ancestors(search_path) ==
    LET split_srch_path == split(search_path)
        n == Len(split_srch_path)
    IN  [j \in 1..n |-> join(SubSeq(split_srch_path, 1, n - j))]

\* StartDirs changed as by putting cwd after the additional search paths.
StartDirsCwdLast(c, extra) == extra \o <<c>>

\* Lines 85-89: start_dirs = [cwd]; start_dirs.extend(additional_search_paths)
StartDirs(c, extra) == <<c>> \o extra

\* Lines 125-127: the inner loop, one candidate for each start directory.
GuessesFor(local_guess, roots) ==
    [r \in 1..Len(roots) |-> os_path_join(roots[r], local_guess)]

\* Lines 123-127: the outer loop over j, from iteration j on (1-based).
RECURSIVE GuessesFrom(_, _, _)
GuessesFrom(split_file_path, j, roots) ==
    IF j > Len(split_file_path) THEN <<>>
    ELSE GuessesFor(join(SubSeq(split_file_path, j, Len(split_file_path))),
                    roots)
         \o GuessesFrom(split_file_path, j + 1, roots)

\* CandidatePaths changed as by swapping the two loops: start directories
\* outside, suffixes inside.
CandidatePathsRootMajor(name, roots) ==
    LET split_file_path == split(name)
        K == Len(split_file_path)
    IN  [m \in 1..(K * Len(roots)) |->
            os_path_join(roots[((m - 1) \div K) + 1],
                         join(SubSeq(split_file_path, ((m - 1) % K) + 1, K)))]

\* Lines 121-127: candidate_paths for one normalized file name.
CandidatePaths(name, roots) == GuessesFrom(split(name), 1, roots)

-----------------------------------------------------------------------------
(* The state of one call.                                                  *)

VARIABLES
    arg,                        \* the value the caller passed as filenames
    additional_search_paths,    \* the caller's list of search paths
    cwd,                        \* what os.getcwd() returns
    fs,                         \* the regular files that exist
    pc,                         \* the position in the function's body
    filenames,                  \* the local name filenames
    found_files,
    local_start_directories,
    num_start_directories,
    ri,                         \* line 95's i, 1-based
    i,                          \* line 104's i, 1-based
    candidate_paths,
    found_file,
    ci,                         \* the position of line 132's loop, 1-based
    checks,                     \* the os.path.isfile calls made so far
    outcome                     \* what the call returned or raised

vars == <<arg, additional_search_paths, cwd, fs, pc, filenames, found_files,
          local_start_directories, num_start_directories, ri, i,
          candidate_paths, found_file, ci, checks, outcome>>

inputs == <<arg, additional_search_paths, cwd, fs>>

\* The absolute components of path p, resolved against cwd.
Resolve(p) ==
    LET NonEmpty(c) == c # <<>>
    IN  IF Len(p) > 0 /\ p[1] = "/" THEN SelectSeq(split(p), NonEmpty)
        ELSE SelectSeq(split(cwd), NonEmpty) \o SelectSeq(split(p), NonEmpty)

\* os.path.isfile(p): the empty path and a path with a trailing slash name
\* no regular file.
isfile(p) == /\ Len(p) > 0
             /\ p[Len(p)] # "/"
             /\ Resolve(p) \in fs

\* The caller's filenames object: the local name is bound to it unless line
\* 82 rebound the name to a new list.
CallerFilenames == IF hasattr_iter(arg) THEN filenames ELSE arg

Init ==
    /\ arg \in ArgPool
    /\ additional_search_paths \in SeqsUpTo(HintPool, MaxHints)
    /\ cwd \in CwdPool
    /\ fs \in FsPool
    /\ pc = "start"
    /\ filenames = arg
    /\ found_files = <<>>
    /\ local_start_directories = <<>>
    /\ num_start_directories = 0
    /\ ri = 1
    /\ i = 1
    /\ candidate_paths = <<>>
    /\ found_file = FALSE
    /\ ci = 1
    /\ checks = <<>>
    /\ outcome = [kind |-> "running"]

\* Lines 78-82: found_files = []; a value without __iter__ becomes a
\* one-element list (its element is kept as its str() form, which line 107
\* takes).
Wrap ==
    /\ pc = "start"
    /\ found_files' = <<>>
    /\ filenames' = IF ~hasattr_iter(filenames)
                    THEN [kind |-> "list", val |-> <<filenames.val>>]
                    ELSE filenames
    /\ pc' = "roots"
    /\ UNCHANGED <<inputs, local_start_directories, num_start_directories,
                   ri, i, candidate_paths, found_file, ci, checks, outcome>>

\* Lines 84-92: the start directories, normalized.
BuildRoots ==
    /\ pc = "roots"
    /\ LET start_dirs == StartDirs(cwd, additional_search_paths)
       IN  /\ local_start_directories' =
                 [k \in 1..Len(start_dirs) |-> replace(start_dirs[k])]
           /\ num_start_directories' = Len(start_dirs)
    /\ ri' = 1
    /\ pc' = "extend"
    /\ UNCHANGED <<inputs, filenames, found_files, i, candidate_paths,
                   found_file, ci, checks, outcome>>

\* Lines 95-101: one iteration of the loop over the first
\* num_start_directories entries, or its end.
ExtendRoots ==
    /\ pc = "extend"
    /\ \/ /\ ri <= num_start_directories
          /\ local_start_directories' =
                local_start_directories
                \o Ancestors(local_start_directories[ri])
          /\ ri' = ri + 1
          /\ UNCHANGED <<pc, i>>
       \/ /\ ri > num_start_directories
          /\ pc' = "loop"
          /\ i' = 1
          /\ UNCHANGED <<local_start_directories, ri>>
    /\ UNCHANGED <<inputs, filenames, found_files, num_start_directories,
                   candidate_paths, found_file, ci, checks, outcome>>

\* Lines 104-107: the next element of enumerate(filenames) is normalized in
\* place; a value that is no list (a str does not support item assignment)
\* raises TypeError.
NextFile ==
    /\ pc = "loop"
    /\ i <= Len(filenames.val)
    /\ \/ /\ filenames.kind = "list"
          /\ filenames' = [filenames EXCEPT !.val[i] = replace(@)]
          /\ pc' = "original"
          /\ UNCHANGED outcome
       \/ /\ filenames.kind # "list"
          /\ outcome' = [kind |-> "TypeError"]
          /\ pc' = "done"
          /\ UNCHANGED filenames
    /\ UNCHANGED <<inputs, found_files, local_start_directories,
                   num_start_directories, ri, i, candidate_paths, found_file,
                   ci, checks>>

\* CheckOriginal changed as by leaving out line 112's continue.
CheckOriginalNoContinue ==
    /\ pc = "original"
    /\ checks' = Append(checks, [index |-> i, path |-> filenames.val[i]])
    /\ found_files' = IF isfile(filenames.val[i])
                      THEN Append(found_files, filenames.val[i])
                      ELSE found_files
    /\ pc' = "generate"
    /\ UNCHANGED <<inputs, filenames, local_start_directories,
                   num_start_directories, ri, i, candidate_paths, found_file,
                   ci, outcome>>

\* Lines 110-112: the file at its recorded place.
CheckOriginal ==
    /\ pc = "original"
    /\ checks' = Append(checks, [index |-> i, path |-> filenames.val[i]])
    /\ IF isfile(filenames.val[i])
       THEN /\ found_files' = Append(found_files, filenames.val[i])
            /\ i' = i + 1
            /\ pc' = "loop"
       ELSE /\ pc' = "generate"
            /\ UNCHANGED <<found_files, i>>
    /\ UNCHANGED <<inputs, filenames, local_start_directories,
                   num_start_directories, ri, candidate_paths, found_file,
                   ci, outcome>>

\* Lines 121-131: the candidate paths of this file.
Generate ==
    /\ pc = "generate"
    /\ candidate_paths' =
          CandidatePaths(filenames.val[i], local_start_directories)
    /\ found_file' = FALSE
    /\ ci' = 1
    /\ pc' = "search"
    /\ UNCHANGED <<inputs, filenames, found_files, local_start_directories,
                   num_start_directories, ri, i, checks, outcome>>

\* TestCandidate changed as by leaving out line 138's break.
TestCandidateNoBreak ==
    /\ pc = "search"
    /\ \/ /\ ci <= Len(candidate_paths)
          /\ checks' =
                Append(checks, [index |-> i, path |-> candidate_paths[ci]])
          /\ IF isfile(candidate_paths[ci])
             THEN /\ found_files' = Append(found_files, candidate_paths[ci])
                  /\ found_file' = ~found_file
             ELSE UNCHANGED <<found_files, found_file>>
          /\ ci' = ci + 1
          /\ UNCHANGED pc
       \/ /\ ci > Len(candidate_paths)
          /\ pc' = "searched"
          /\ UNCHANGED <<found_files, found_file, ci, checks>>
    /\ UNCHANGED <<inputs, filenames, local_start_directories,
                   num_start_directories, ri, i, candidate_paths, outcome>>

\* Lines 132-138: one iteration of the loop over candidate_paths, or its
\* end.
TestCandidate ==
    /\ pc = "search"
    /\ \/ /\ ci <= Len(candidate_paths)
          /\ checks' =
                Append(checks, [index |-> i, path |-> candidate_paths[ci]])
          /\ IF isfile(candidate_paths[ci])
             THEN /\ found_files' = Append(found_files, candidate_paths[ci])
                  /\ found_file' = ~found_file
                  /\ pc' = "searched"
                  /\ UNCHANGED ci
             ELSE /\ ci' = ci + 1
                  /\ UNCHANGED <<found_files, found_file, pc>>
       \/ /\ ci > Len(candidate_paths)
          /\ pc' = "searched"
          /\ UNCHANGED <<found_files, found_file, ci, checks>>
    /\ UNCHANGED <<inputs, filenames, local_start_directories,
                   num_start_directories, ri, i, candidate_paths, outcome>>

\* AfterSearch changed as by going on to the next file instead of raising.
AfterSearchNoRaise ==
    /\ pc = "searched"
    /\ i' = i + 1
    /\ pc' = "loop"
    /\ UNCHANGED <<inputs, filenames, found_files, local_start_directories,
                   num_start_directories, ri, candidate_paths, found_file,
                   ci, checks, outcome>>

\* Lines 141-146: the file was found nowhere.
AfterSearch ==
    /\ pc = "searched"
    /\ \/ /\ ~found_file
          /\ outcome' = [kind |-> "FileNotFoundError",
                         name |-> filenames.val[i],
                         searched |-> candidate_paths]
          /\ pc' = "done"
          /\ UNCHANGED i
       \/ /\ found_file
          /\ i' = i + 1
          /\ pc' = "loop"
          /\ UNCHANGED outcome
    /\ UNCHANGED <<inputs, filenames, found_files, local_start_directories,
                   num_start_directories, ri, candidate_paths, found_file,
                   ci, checks>>

\* Line 147: return found_files.
Return ==
    /\ pc = "loop"
    /\ i > Len(filenames.val)
    /\ outcome' = [kind |-> "return", value |-> found_files]
    /\ pc' = "done"
    /\ UNCHANGED <<inputs, filenames, found_files, local_start_directories,
                   num_start_directories, ri, i, candidate_paths, found_file,
                   ci, checks>>

Next ==
    \/ Wrap
    \/ BuildRoots
    \/ ExtendRoots
    \/ NextFile
    \/ CheckOriginal
    \/ Generate
    \/ TestCandidate
    \/ AfterSearch
    \/ Return

Spec == Init /\ [][Next]_vars

-----------------------------------------------------------------------------
(* What the claims speak of.                                               *)

\* p with every backslash turned into a slash: the normalized form of p.
RECURSIVE Normal(_)
Normal(p) ==
    IF p = <<>> THEN <<>>
    ELSE <<IF Head(p) = "\\" THEN "/" ELSE Head(p)>> \o Normal(Tail(p))

Done == pc = "done"
Returned == Done /\ outcome.kind = "return"
NotFound == Done /\ outcome.kind = "FileNotFoundError"

\* The root list is complete once the loop of lines 95-101 has ended.
RootsReady == pc \in {"loop", "original", "generate", "search", "searched",
                      "done"}

\* The nominal paths of a call given a list, or a value line 82 wraps.
IsPathList == arg.kind # "str"
InputPaths == IF arg.kind = "list" THEN arg.val ELSE <<arg.val>>

\* The number of '/'-delimited components of a path.
NumComponents(name) == Cardinality({k \in 1..Len(name) : name[k] = "/"}) + 1

\* The text after the (s-1)-th slash of name: its s-th suffix.
SuffixOf(name, s) ==
    IF s = 1 THEN name
    ELSE LET at == CHOOSE k \in 1..Len(name) :
                       /\ name[k] = "/"
                       /\ Cardinality({m \in 1..k : name[m] = "/"}) = s - 1
         IN  SubSeq(name, at + 1, Len(name))

\* The m-th candidate of name in suffix-major order over roots.
CandidateAt(name, roots, m) ==
    LET R == Len(roots)
    IN  os_path_join(roots[((m - 1) % R) + 1],
                     SuffixOf(name, ((m - 1) \div R) + 1))

NumCandidates(name, roots) == NumComponents(name) * Len(roots)

\* Whether the normalized path or one of its candidates exists.
Resolvable(name, roots) ==
    \/ isfile(name)
    \/ \E m \in 1..NumCandidates(name, roots) :
          isfile(CandidateAt(name, roots, m))

\* The first candidate of name that exists, from the m-th one on (the empty
\* path when none does).
RECURSIVE FirstHit(_, _, _)
FirstHit(name, roots, m) ==
    IF m > NumCandidates(name, roots) THEN <<>>
    ELSE IF isfile(CandidateAt(name, roots, m)) THEN CandidateAt(name, roots, m)
    ELSE FirstHit(name, roots, m + 1)

\* The path itself when it exists, and else its first candidate that does.
Resolution(name, roots) ==
    IF isfile(name) THEN name ELSE FirstHit(name, roots, 1)

\* The paths of the os.path.isfile calls made for input k, in order.
ChecksOf(k) ==
    LET mine == SelectSeq(checks, LAMBDA c : c.index = k)
    IN  [n \in 1..Len(mine) |-> mine[n].path]

-----------------------------------------------------------------------------
\* C1: for every nominal path whose normalized form is no file, the
\* existence checks made after the one on the path itself follow the
\* candidates in suffix-major order (full path first, file name last; roots
\* in root-list order inside a suffix), every check before the last one
\* missed (so nothing is checked after the first match), the path resolves
\* to the first candidate that exists, and the search gives up only when no
\* candidate exists.
C1_FirstMatchInOrder ==
    (RootsReady /\ filenames.kind = "list") =>
       \A k \in 1..Len(filenames.val) :
          LET cs == ChecksOf(k)
              name == filenames.val[k]
              tested == Tail(cs)
          IN  (Len(cs) > 0 /\ ~isfile(cs[1])) =>
                 /\ cs[1] = name
                 /\ Len(tested) <= NumCandidates(name, local_start_directories)
                 /\ \A m \in 1..Len(tested) :
                       /\ tested[m]
                             = CandidateAt(name, local_start_directories, m)
                       /\ m < Len(tested) => ~isfile(tested[m])
                 /\ Len(found_files) >= k =>
                       /\ Len(tested) > 0
                       /\ found_files[k] = tested[Len(tested)]
                       /\ isfile(found_files[k])
                 /\ (NotFound /\ k = i) =>
                       /\ Len(tested)
                             = NumCandidates(name, local_start_directories)
                       /\ \A m \in 1..Len(tested) : ~isfile(tested[m])

\* A path was relocated to a candidate that is neither the first tested nor
\* the only one that exists: a later candidate exists and was never tested.
C1_Witness ==
    /\ Returned
    /\ \E k \in 1..Len(filenames.val) :
          LET cs == ChecksOf(k)
              name == filenames.val[k]
          IN  /\ Len(cs) > 3
              /\ ~isfile(name)
              /\ \E m \in Len(cs)..NumCandidates(name, local_start_directories) :
                    isfile(CandidateAt(name, local_start_directories, m))

\* C3: after n input paths have been processed without error found_files has
\* n entries, entry j being the resolution of input j; the list returned has
\* as many entries as there are input paths.
C3_OrderAndCount ==
    (IsPathList /\ pc \notin {"start", "roots", "extend"}) =>
       LET processed == IF pc = "searched" /\ found_file THEN i ELSE i - 1
       IN  /\ Len(found_files) = processed
           /\ \A j \in 1..Len(found_files) :
                 found_files[j] = Resolution(Normal(InputPaths[j]),
                                             local_start_directories)
           /\ Returned =>
                 /\ outcome.value = found_files
                 /\ Len(outcome.value) = Len(InputPaths)

\* Two different inputs resolved, the second one by relocation, and the list
\* was returned.
C3_Witness ==
    /\ Returned
    /\ Len(outcome.value) = 2
    /\ outcome.value[1] # outcome.value[2]
    /\ ~isfile(Normal(InputPaths[2]))

\* C4: the call raises the not-found error exactly when some input path is
\* unresolvable; the error names the first such path (normalized), no
\* existence check was made for a later input, and nothing is returned.
C4_FailFast ==
    (Done /\ IsPathList) =>
       LET Bad(k) == ~Resolvable(Normal(InputPaths[k]),
                                 local_start_directories)
       IN  /\ (\E k \in 1..Len(InputPaths) : Bad(k)) <=> NotFound
           /\ NotFound =>
                 /\ i \in 1..Len(InputPaths)
                 /\ Bad(i)
                 /\ \A j \in 1..(i - 1) : ~Bad(j)
                 /\ outcome.name = Normal(InputPaths[i])
                 /\ \A n \in 1..Len(checks) : checks[n].index <= i
                 /\ DOMAIN outcome = {"kind", "name", "searched"}

\* The first of two paths was unresolvable although the second one exists.
C4_Witness ==
    /\ NotFound
    /\ i = 1
    /\ Len(InputPaths) = 2
    /\ Resolvable(Normal(InputPaths[2]), local_start_directories)

\* C5: the candidate list reported in the error has (number of suffixes) x
\* (number of roots) entries, the number of suffixes being the number of
\* '/'-delimited components of the normalized path; entry (s-1)*R + r is the
\* join of root r and suffix s, the first suffix being the whole path and the
\* last one the file name.
C5_CandidateList ==
    NotFound =>
       LET name == outcome.name
           K == NumComponents(name)
           R == Len(local_start_directories)
       IN  /\ Len(outcome.searched) = K * R
           /\ \A s \in 1..K : \A r \in 1..R :
                 outcome.searched[(s - 1) * R + r]
                    = os_path_join(local_start_directories[r],
                                   SuffixOf(name, s))
           /\ SuffixOf(name, 1) = name
           /\ \A k \in 1..Len(SuffixOf(name, K)) : SuffixOf(name, K)[k] # "/"

\* A path of three components failed against more than three roots.
C5_Witness ==
    /\ NotFound
    /\ NumComponents(outcome.name) = 3
    /\ Len(local_start_directories) > 3
    /\ Len(outcome.searched) = 3 * Len(local_start_directories)

\* What a call given the list paths yields, computed from the resolutions.
ListOutcome(paths, roots) ==
    LET names == [k \in 1..Len(paths) |-> Normal(paths[k])]
        bad == {k \in 1..Len(paths) : ~Resolvable(names[k], roots)}
    IN  IF bad = {}
        THEN [kind |-> "return",
              value |-> [k \in 1..Len(paths) |-> Resolution(names[k], roots)]]
        ELSE LET k == CHOOSE k \in bad : \A j \in bad : k <= j
             IN  [kind |-> "FileNotFoundError",
                  name |-> names[k],
                  searched |-> [m \in 1..NumCandidates(names[k], roots) |->
                                   CandidateAt(names[k], roots, m)]]

\* A call given a list, or a value that line 82 wraps, ends as ListOutcome
\* says.
ListCallOutcome ==
    (Done /\ IsPathList) =>
       outcome = ListOutcome(InputPaths, local_start_directories)

\* C2: a call given the bare string s ends as the call given [s] does: with
\* the same one-element result or the same not-found error.
C2_BareString ==
    (Done /\ arg.kind = "str") =>
       outcome = ListOutcome(<<arg.val>>, local_start_directories)

\* C6: the call does not mutate its inputs: at every step the caller's
\* filenames object and the caller's additional_search_paths hold what they
\* held before.
C6_InputsNotMutated ==
    [][/\ CallerFilenames' = CallerFilenames
       /\ additional_search_paths' = additional_search_paths]_vars

\* C7 as stated: for a path p that exists as a file, the call with [p] and
\* no additional search path returns [p], and the only existence check made
\* is the one on p.
C7_FastPathUnchanged ==
    (/\ Done
     /\ arg.kind = "list"
     /\ Len(arg.val) = 1
     /\ additional_search_paths = <<>>
     /\ isfile(arg.val[1])) =>
       /\ Returned
       /\ outcome.value = <<arg.val[1]>>
       /\ checks = <<[index |-> 1, path |-> arg.val[1]]>>

\* C7, amended: for a path p whose normalized form (backslashes replaced by
\* slashes) exists as a file, the call with [p] and no additional search
\* path returns the normalized p alone, and the only existence check made is
\* the one on the normalized p.
C7_FastPathNormalized ==
    (/\ Done
     /\ arg.kind = "list"
     /\ Len(arg.val) = 1
     /\ additional_search_paths = <<>>
     /\ isfile(Normal(arg.val[1]))) =>
       /\ Returned
       /\ outcome.value = <<Normal(arg.val[1])>>
       /\ checks = <<[index |-> 1, path |-> Normal(arg.val[1])]>>

\* The fast path was taken for a path recorded with a backslash.
C7_Witness ==
    /\ Returned
    /\ arg.kind = "list"
    /\ Len(arg.val) = 1
    /\ additional_search_paths = <<>>
    /\ arg.val[1] # Normal(arg.val[1])
    /\ isfile(Normal(arg.val[1]))
    /\ Len(checks) = 1

\* Whether list l holds an empty string.
HoldsEmpty(l) == \E k \in 1..Len(l) : l[k] = <<>>

\* C8 as stated: an empty sequence, None, or a sequence holding an empty
\* string makes the call return an empty result and never raise.
C8_MalformedYieldsEmpty ==
    (/\ Done
     /\ \/ arg.kind = "NoneType"
        \/ arg.kind = "list" /\ (arg.val = <<>> \/ HoldsEmpty(arg.val))) =>
       /\ Returned
       /\ outcome.value = <<>>

\* C8, amended: an empty sequence makes the call return an empty result
\* without any existence check; None is wrapped into a one-element list and
\* searched for under its str() form, and a sequence holding an empty string
\* is searched like any other, the empty string being unresolvable: both end
\* as the list call does, a not-found error unless every path resolves.
C8_EmptyOnlyYieldsEmpty ==
    /\ (arg.kind = "NoneType" /\ pc # "start") =>
          /\ filenames.kind = "list"
          /\ Len(filenames.val) = 1
          /\ Normal(filenames.val[1]) = Normal(arg.val)
    /\ Done =>
          /\ (arg.kind = "list" /\ arg.val = <<>>) =>
                /\ Returned
                /\ outcome.value = <<>>
                /\ checks = <<>>
          /\ arg.kind = "NoneType" =>
                /\ outcome.kind \in {"return", "FileNotFoundError"}
                /\ Returned => Len(outcome.value) = 1
                /\ NotFound => outcome.name = arg.val
                /\ NotFound <=> ~Resolvable(arg.val, local_start_directories)
          /\ (arg.kind = "list" /\ HoldsEmpty(arg.val)) =>
                /\ NotFound
                /\ \A j \in 1..(i - 1) : arg.val[j] # <<>>

\* None was searched for as the path "None" and not found.
C8_Witness ==
    /\ NotFound
    /\ arg.kind = "NoneType"
    /\ outcome.name = <<"N", "o", "n", "e">>

\* The concatenation of a sequence of sequences.
RECURSIVE Flatten(_)
Flatten(ss) == IF Len(ss) = 0 THEN <<>> ELSE ss[1] \o Flatten(Tail(ss))

\* The normalized hints of the call: cwd, then the additional search paths.
Hints ==
    [k \in 1..(Len(additional_search_paths) + 1) |->
        Normal(IF k = 1 THEN cwd ELSE additional_search_paths[k - 1])]

\* C9 as stated: the expanded root list holds each hint followed at once by
\* its ancestors: cwd, ancestors of cwd, h1, ancestors of h1, h2, ...
C9_AncestorsAfterEachHint ==
    RootsReady =>
       local_start_directories
          = Flatten([k \in 1..Len(Hints) |-> <<Hints[k]>> \o Ancestors(Hints[k])])

\* C9, amended: the expanded root list holds all the hints first, in the
\* order supplied with cwd first, and then the ancestors of each hint, group
\* by group in the order of the hints: cwd, h1, h2, ancestors of cwd,
\* ancestors of h1, ancestors of h2.
C9_HintsThenAncestors ==
    RootsReady =>
       /\ local_start_directories
             = Hints \o Flatten([k \in 1..Len(Hints) |-> Ancestors(Hints[k])])
       /\ local_start_directories[1] = Normal(cwd)
       /\ num_start_directories = Len(additional_search_paths) + 1

\* The root list of a call with two different hints is complete.
C9_Witness ==
    /\ RootsReady
    /\ Len(additional_search_paths) = 2
    /\ additional_search_paths[1] # additional_search_paths[2]

\* path without its last '/'-delimited component.
StripLast(path) ==
    IF \A k \in 1..Len(path) : path[k] # "/" THEN <<>>
    ELSE LET at == CHOOSE k \in 1..Len(path) :
                       path[k] = "/" /\ \A m \in (k + 1)..Len(path) : path[m] # "/"
         IN  SubSeq(path, 1, at - 1)

\* The paths got by stripping the last component of path again and again,
\* the empty path ending the chain.
RECURSIVE StripChain(_)
StripChain(path) ==
    IF path = <<>> THEN <<>>
    ELSE <<StripLast(path)>> \o StripChain(StripLast(path))

\* The roots the only additional search path contributed: the hint and what
\* follows the ancestors of cwd.
ContributedByHint ==
    <<local_start_directories[2]>>
    \o SubSeq(local_start_directories,
              3 + Len(Ancestors(Normal(cwd))),
              Len(local_start_directories))

\* C10: the expansion of one hint strips the last component again and again
\* and stops at the empty path, so the hint contributes itself and its strip
\* chain, the empty root once: "/x/y/z", "/x/y", "/x", "" for "/x/y/z".
C10_StripUntilEmpty ==
    (RootsReady /\ Len(additional_search_paths) = 1) =>
       ContributedByHint
          = <<Normal(additional_search_paths[1])>>
            \o StripChain(Normal(additional_search_paths[1]))

====
